---- MODULE Spec2Model ----
(***************************************************************************)
(* Model of the cake REST service: the CakeService operations              *)
(* (cakes_app/services/cake_service.py) and the Flask-RESTX resource       *)
(* handlers that call them (cakes_app/controllers/cake_controller.py),     *)
(* over a MongoDB collection.                                              *)
(*                                                                         *)
(* A request body (a Python dict) is a sequence of <<key, value>> pairs    *)
(* with distinct keys, in insertion order.  A stored document is a         *)
(* function from field names to values.  The collection is a set of        *)
(* documents.  A response payload is a function from its keys to values;   *)
(* a message is the sequence of the strings it is concatenated from.       *)
(* The identifier k stands for the k-th UUID string that uuid4 generated;  *)
(* 0 stands for a string that is no generated UUID.                        *)
(***************************************************************************)
EXTENDS Integers, Sequences, FiniteSets, TLC

\* store: the cakes collection; issued: how many UUIDs uuid4 has generated;
\* last: the request served last and its response; nops: requests served.
\* History: deleted, the identifiers a delete has removed; pristine, for each
\* added record no update or delete has touched since, the body submitted.
\* inflight: the Update requests that run as two steps, by request number:
\* what each read and, once it has replaced, what it answered.
VARIABLES store, issued, deleted, pristine, last, nops, inflight

vars == <<store, issued, deleted, pristine, last, nops, inflight>>

(* ---- bounds ---------------------------------------------------------- *)

\* field values are 1..MaxVal
MaxVal == 2
\* number of requests served in one behaviour
MaxOps == 3

Vals == 1..MaxVal

(* ---- Python dicts ---------------------------------------------------- *)

Keys(d) == {d[i][1] : i \in 1..Len(d)}

Has(d, k) == \E i \in 1..Len(d) : d[i][1] = k

GetItem(d, k) == d[CHOOSE i \in 1..Len(d) : d[i][1] = k][2]

SetItem(d, k, v) ==
    IF Has(d, k)
    THEN [i \in 1..Len(d) |-> IF d[i][1] = k THEN <<k, v>> ELSE d[i]]
    ELSE Append(d, <<k, v>>)

\* the BSON document a dict is stored as
Doc(d) == [k \in Keys(d) |-> GetItem(d, k)]

None == [None |-> TRUE]

\* ', '.join(fields)
Join(fields) ==
    [i \in 1..(IF Len(fields) = 0 THEN 0 ELSE 2 * Len(fields) - 1) |->
        IF i % 2 = 1 THEN fields[(i + 1) \div 2] ELSE ", "]

(* ---- fields ---------------------------------------------------------- *)

required_fields == <<"name", "comment", "imageUrl", "yumFactor">>

allowed_fields == required_fields \o <<"_id">>

FieldOrder == <<"_id", "name", "comment", "imageUrl", "yumFactor", "extraField", "price">>

Range(s) == {s[i] : i \in 1..Len(s)}

Reverse(s) == [i \in 1..Len(s) |-> s[Len(s) + 1 - i]]

(* ---- the MongoDB collection ------------------------------------------ *)

Ids(coll) == {d["_id"] : d \in coll}

find_one(coll, id) ==
    IF \E d \in coll : d["_id"] = id
    THEN CHOOSE d \in coll : d["_id"] = id
    ELSE None

\* what can happen to a write at the store: it is applied; it fails and
\* nothing is written; the failure is reported after the write was applied
WriteOutcomes == {"ok", "failed", "failed_after_write"}

\* insert_one raises on a store failure, and DuplicateKeyError on an _id
\* already in the collection
insert_one_raises(coll, doc, outcome) == outcome # "ok" \/ doc["_id"] \in Ids(coll)

insert_one(coll, doc, outcome) ==
    IF outcome = "failed" \/ doc["_id"] \in Ids(coll) THEN coll ELSE coll \cup {doc}

deleted_count(coll, id) == Cardinality({d \in coll : d["_id"] = id})

delete_one_keeps(coll, id) == coll

delete_one(coll, id) == {d \in coll : d["_id"] # id}

find_one_and_replace_never_raises(coll, id, doc) == FALSE

\* the _id of a document is immutable: a replacement that carries another
\* _id is rejected by the server (OperationFailure)
find_one_and_replace_raises(coll, id, doc) ==
    /\ id \in Ids(coll)
    /\ "_id" \in DOMAIN doc
    /\ doc["_id"] # id

find_one_and_replace_merges(coll, id, doc) ==
    IF id \in Ids(coll)
    THEN {d \in coll : d["_id"] # id}
            \cup {[k \in DOMAIN doc \cup DOMAIN (CHOOSE d \in coll : d["_id"] = id) |->
                     IF k \in DOMAIN doc THEN doc[k]
                     ELSE (CHOOSE d \in coll : d["_id"] = id)[k]]}
    ELSE coll

find_one_and_replace_upserts(coll, id, doc) ==
    {d \in coll : d["_id"] # id}
        \cup {[k \in DOMAIN doc \cup {"_id"} |-> IF k \in DOMAIN doc THEN doc[k] ELSE id]}

\* the replacement takes the place of the document the filter matches; with
\* no match nothing is written (no upsert)
find_one_and_replace(coll, id, doc) ==
    IF id \in Ids(coll)
    THEN {d \in coll : d["_id"] # id}
            \cup {[k \in DOMAIN doc \cup {"_id"} |-> IF k \in DOMAIN doc THEN doc[k] ELSE id]}
    ELSE coll

\* the orders in which a cursor can return the documents
CursorOrders(coll) ==
    {o \in [1..Cardinality(coll) -> Ids(coll)] :
        \A i, j \in 1..Cardinality(coll) : o[i] = o[j] => i = j}

project_nothing(doc, projection) == doc

\* a projection keeps the named fields the document has
project(doc, projection) == [k \in DOMAIN doc \cap projection |-> doc[k]]

\* find({}, projection), read to the end in the order the cursor gives
find(coll, projection, order) ==
    [i \in 1..Len(order) |-> project(CHOOSE d \in coll : d["_id"] = order[i], projection)]

(* ---- bson.json_util ---------------------------------------------------- *)

dumps_drops_member(doc) ==
    LET ks == SelectSeq(FieldOrder, LAMBDA k : k \in DOMAIN doc)
    IN  [json |-> [i \in 1..(Len(ks) - 1) |-> <<ks[i], doc[ks[i]]>>]]

\* dumps writes the document as JSON text: its members, one after another
dumps(doc) ==
    LET ks == SelectSeq(FieldOrder, LAMBDA k : k \in DOMAIN doc)
    IN  [json |-> [i \in 1..Len(ks) |-> <<ks[i], doc[ks[i]]>>]]

\* loads parses the JSON text back into a mapping
loads(text) == Doc(text.json)

(* ---- CakeService ------------------------------------------------------- *)

Reply(coll, status, payload) == [store |-> coll, status |-> status, payload |-> payload]

\* str(uuid.uuid4()): a string that was never generated before
uuid4(n) == n + 1

\* str(cake["_id"]): the identifier is a string already
str(id) == id

get_all_cakes(coll, order) ==
    LET cakes == find(coll, {"_id", "name", "comment", "imageUrl", "yumFactor"}, order)
    IN  [i \in 1..Len(cakes) |-> [cakes[i] EXCEPT !["_id"] = str(cakes[i]["_id"])]]

get_cake_by_id(coll, cake_id) ==
    LET cake == find_one(coll, cake_id)
    IN  IF cake # None /\ DOMAIN cake # {} THEN dumps(cake) ELSE None

has_required_fields(data) ==
    \A i \in 1..Len(required_fields) : Has(data, required_fields[i])

unexpected_fields_first_only(data) ==
    LET all == SelectSeq([i \in 1..Len(data) |-> data[i][1]],
                         LAMBDA field : field \notin Range(allowed_fields))
    IN  IF all = <<>> THEN <<>> ELSE <<Head(all)>>

unexpected_fields(data) ==
    SelectSeq([i \in 1..Len(data) |-> data[i][1]],
              LAMBDA field : field \notin Range(allowed_fields))

with_uuid_keeps_supplied(data, uuid) ==
    IF Has(data, "_id") THEN data ELSE SetItem(data, "_id", uuid)

\* data["_id"] = str(uuid.uuid4())
with_uuid(data, uuid) == SetItem(data, "_id", uuid)

add_cake_whitelist_first(coll, data, uuid, outcome) ==
    IF unexpected_fields(data) # <<>>
    THEN Reply(coll, 400,
               [message |-> <<"Unexpected fields: ">> \o Join(unexpected_fields(data))])
    ELSE IF ~ has_required_fields(data)
    THEN Reply(coll, 400, [message |-> <<"Missing required fields in the data">>])
    ELSE LET data2 == with_uuid(data, uuid)
         IN  IF insert_one_raises(coll, Doc(data2), outcome)
             THEN Reply(insert_one(coll, Doc(data2), outcome), 500,
                        [message |-> <<"Server error while adding the cake">>,
                         error |-> <<"insert failed">>])
             ELSE Reply(insert_one(coll, Doc(data2), outcome), 200,
                        [message |-> <<"Cake added successfully">>,
                         _id |-> GetItem(data2, "_id")])

add_cake_leaks_id(coll, data, uuid, outcome) ==
    IF ~ has_required_fields(data)
    THEN Reply(coll, 400, [message |-> <<"Missing required fields in the data">>])
    ELSE IF unexpected_fields(data) # <<>>
    THEN Reply(coll, 400,
               [message |-> <<"Unexpected fields: ">> \o Join(unexpected_fields(data))])
    ELSE LET data2 == with_uuid(data, uuid)
         IN  IF insert_one_raises(coll, Doc(data2), outcome)
             THEN Reply(insert_one(coll, Doc(data2), outcome), 500,
                        [message |-> <<"Server error while adding the cake">>,
                         error |-> <<"insert failed">>,
                         _id |-> GetItem(data2, "_id")])
             ELSE Reply(insert_one(coll, Doc(data2), outcome), 200,
                        [message |-> <<"Cake added successfully">>,
                         _id |-> GetItem(data2, "_id")])

add_cake(coll, data, uuid, outcome) ==
    IF ~ has_required_fields(data)
    THEN Reply(coll, 400, [message |-> <<"Missing required fields in the data">>])
    ELSE IF unexpected_fields(data) # <<>>
    THEN Reply(coll, 400,
               [message |-> <<"Unexpected fields: ">> \o Join(unexpected_fields(data))])
    ELSE LET data2 == with_uuid(data, uuid)
         IN  IF insert_one_raises(coll, Doc(data2), outcome)
             THEN Reply(insert_one(coll, Doc(data2), outcome), 500,
                        [message |-> <<"Server error while adding the cake">>,
                         error |-> <<"insert failed">>])
             ELSE Reply(insert_one(coll, Doc(data2), outcome), 200,
                        [message |-> <<"Cake added successfully">>,
                         _id |-> GetItem(data2, "_id")])

delete_cake(coll, cake_id) ==
    IF deleted_count(coll, cake_id) = 1
    THEN Reply(delete_one(coll, cake_id), 200, [message |-> <<"Cake deleted successfully">>])
    ELSE Reply(coll, 404, [message |-> <<"Cake not found">>])

dict_update_replaces(existing_cake, data) ==
    [k \in {"_id"} \cup Keys(data) |->
        IF Has(data, k) THEN GetItem(data, k) ELSE existing_cake[k]]

\* existing_cake.update(data)
dict_update(existing_cake, data) ==
    [k \in DOMAIN existing_cake \cup Keys(data) |->
        IF Has(data, k) THEN GetItem(data, k) ELSE existing_cake[k]]

update_cake_upserts(coll, cake_id, data) ==
    LET existing_cake == find_one(coll, cake_id)
    IN  IF existing_cake # None
        THEN LET merged == dict_update(existing_cake, data)
             IN  IF find_one_and_replace_raises(coll, cake_id, merged)
                 THEN Reply(coll, 500, [message |-> <<"Internal Server Error">>])
                 ELSE Reply(find_one_and_replace(coll, cake_id, merged), 200,
                            [message |-> <<"Cake updated successfully">>])
        ELSE Reply(coll \cup {dict_update([k \in {"_id"} |-> cake_id], data)}, 404,
                   [message |-> <<"Cake not found">>])

\* a replace the server rejects raises out of update_cake: the framework
\* answers 500 and nothing was written
update_cake(coll, cake_id, data) ==
    LET existing_cake == find_one(coll, cake_id)
    IN  IF existing_cake # None
        THEN LET merged == dict_update(existing_cake, data)
             IN  IF find_one_and_replace_raises(coll, cake_id, merged)
                 THEN Reply(coll, 500, [message |-> <<"Internal Server Error">>])
                 ELSE Reply(find_one_and_replace(coll, cake_id, merged), 200,
                            [message |-> <<"Cake updated successfully">>])
        ELSE Reply(coll, 404, [message |-> <<"Cake not found">>])

(* ---- request bodies ---------------------------------------------------- *)

DictOrder == <<"name", "comment", "imageUrl", "yumFactor", "_id", "extraField", "price">>

\* a body with the given keys, in order, every key with the value v
MkData(keyseq, v) == [i \in 1..Len(keyseq) |-> <<keyseq[i], v>>]

InOrder(S) == SelectSeq(DictOrder, LAMBDA k : k \in S)

Bodies(keysets) == {MkData(InOrder(S), v) : S \in keysets, v \in Vals}

AddKeySets ==
    {Range(required_fields), Range(required_fields) \cup {"_id"},
     Range(required_fields) \ {"yumFactor"}, Range(required_fields) \cup {"extraField"}}

AddInputs == Bodies(AddKeySets)

UpdateInputs == Bodies(SUBSET {"name", "extraField", "_id"})

\* the store is written only when the body passes validation
OutcomesFor(data) ==
    IF has_required_fields(data) /\ unexpected_fields(data) = <<>>
    THEN WriteOutcomes ELSE {"ok"}

\* the identifiers a client asks for: the generated ones and a string that
\* is none of them
ClientIds == 0..issued

\* every subset of the fields, in dict order and in the reverse order
WideAddInputs ==
    {MkData(InOrder(S), MaxVal) : S \in SUBSET Range(DictOrder)}
        \cup {MkData(Reverse(InOrder(S)), MaxVal) : S \in SUBSET Range(DictOrder)}

(* ---- resource handlers ------------------------------------------------- *)

Request(op, cake_id, data, outcome, status, payload) ==
    [op |-> op, cake_id |-> cake_id, data |-> data, outcome |-> outcome,
     status |-> status, payload |-> payload]

Without(f, id) == [i \in DOMAIN f \ {id} |-> f[i]]

Init ==
    /\ store = {}
    /\ issued = 0
    /\ deleted = {}
    /\ pristine = <<>>
    /\ nops = 0
    /\ last = Request("init", 0, <<>>, "ok", 0, None)
    /\ inflight = <<>>

\* POST /cakes
Cakes_post(data, outcome) ==
    LET result == add_cake(store, data, uuid4(issued), outcome)
    IN  /\ nops < MaxOps
        /\ outcome \in OutcomesFor(data)
        /\ nops' = nops + 1
        /\ store' = result.store
        /\ issued' = IF has_required_fields(data) /\ unexpected_fields(data) = <<>>
                     THEN issued + 1 ELSE issued
        /\ pristine' = IF result.status = 200
                       THEN [i \in DOMAIN pristine \cup {result.payload["_id"]} |->
                                IF i = result.payload["_id"] THEN data ELSE pristine[i]]
                       ELSE pristine
        /\ last' = Request("post", 0, data, outcome, result.status, result.payload)
        /\ UNCHANGED <<deleted, inflight>>

\* GET /cakes; the payload is a JSON array, written [array |-> its entries]
Cakes_get(order) ==
    /\ nops < MaxOps
    /\ nops' = nops + 1
    /\ last' = Request("list", 0, <<>>, "ok", 200, [array |-> get_all_cakes(store, order)])
    /\ UNCHANGED <<store, issued, deleted, pristine, inflight>>

\* GET /cakes/<cake_id>
Cake_get(cake_id) ==
    LET cake == get_cake_by_id(store, cake_id)
    IN  /\ nops < MaxOps
        /\ nops' = nops + 1
        /\ last' = IF cake # None
                   THEN Request("get", cake_id, <<>>, "ok", 200, loads(cake))
                   ELSE Request("get", cake_id, <<>>, "ok", 404,
                                [message |-> <<"Cake not found">>])
        /\ UNCHANGED <<store, issued, deleted, pristine, inflight>>

\* DELETE /cakes/<cake_id>
Cake_delete(cake_id) ==
    LET result == delete_cake(store, cake_id)
    IN  /\ nops < MaxOps
        /\ nops' = nops + 1
        /\ store' = result.store
        /\ deleted' = IF result.status = 200 THEN deleted \cup {cake_id} ELSE deleted
        /\ pristine' = IF result.status = 200 THEN Without(pristine, cake_id) ELSE pristine
        /\ last' = Request("delete", cake_id, <<>>, "ok", result.status, result.payload)
        /\ UNCHANGED <<issued, inflight>>

\* PUT /cakes/<cake_id>
Cake_put(cake_id, data) ==
    LET result == update_cake(store, cake_id, data)
    IN  /\ nops < MaxOps
        /\ nops' = nops + 1
        /\ store' = result.store
        /\ pristine' = IF result.status = 200 THEN Without(pristine, cake_id) ELSE pristine
        /\ last' = Request("put", cake_id, data, "ok", result.status, result.payload)
        /\ UNCHANGED <<issued, deleted, inflight>>

\* PUT /cakes/<cake_id>, up to the answer of find_one: not found is answered
\* at once, a record found is merged with the body in the request's own copy
Cake_put_find_one(cake_id, data) ==
    LET existing_cake == find_one(store, cake_id)
    IN  /\ nops < MaxOps
        /\ nops' = nops + 1
        /\ IF existing_cake # None
           THEN /\ inflight' = Append(inflight,
                      [pc |-> "read", cake_id |-> cake_id, data |-> data,
                       existing_cake |-> existing_cake,
                       replaced_before |-> {t \in DOMAIN inflight : inflight[t].pc = "done"},
                       status |-> 0, turn |-> 0])
                /\ UNCHANGED last
           ELSE /\ last' = Request("put", cake_id, data, "ok", 404,
                                   [message |-> <<"Cake not found">>])
                /\ UNCHANGED inflight
        /\ UNCHANGED <<store, issued, deleted, pristine>>

\* PUT /cakes/<cake_id>, from find_one_and_replace to the answer
Cake_put_replace(t) ==
    LET r == inflight[t]
        merged == dict_update(r.existing_cake, r.data)
        raises == find_one_and_replace_raises(store, r.cake_id, merged)
        turn == 1 + Cardinality({u \in DOMAIN inflight : inflight[u].pc = "done"})
    IN  /\ r.pc = "read"
        /\ store' = IF raises THEN store ELSE find_one_and_replace(store, r.cake_id, merged)
        /\ inflight' = [inflight EXCEPT ![t].pc = "done",
                                        ![t].status = IF raises THEN 500 ELSE 200,
                                        ![t].turn = turn]
        /\ last' = IF raises
                   THEN Request("put", r.cake_id, r.data, "ok", 500,
                                [message |-> <<"Internal Server Error">>])
                   ELSE Request("put", r.cake_id, r.data, "ok", 200,
                                [message |-> <<"Cake updated successfully">>])
        /\ pristine' = IF raises THEN pristine ELSE Without(pristine, r.cake_id)
        /\ UNCHANGED <<issued, deleted, nops>>

Next ==
    \/ \E data \in AddInputs, outcome \in WriteOutcomes : Cakes_post(data, outcome)
    \/ \E cake_id \in ClientIds : Cake_get(cake_id)
    \/ \E cake_id \in ClientIds : Cake_delete(cake_id)
    \/ \E cake_id \in ClientIds, data \in UpdateInputs : Cake_put(cake_id, data)

Spec == Init /\ [][Next]_vars

\* the validation of POST bodies, over every combination of fields
NextAdd ==
    \/ \E data \in WideAddInputs : Cakes_post(data, "ok")
    \/ \E cake_id \in ClientIds : Cake_delete(cake_id)

SpecAdd == Init /\ [][NextAdd]_vars

\* listing, over stores that adds, updates and deletes have shaped
NextList ==
    \/ \E data \in AddInputs : Cakes_post(data, "ok")
    \/ \E order \in CursorOrders(store) : Cakes_get(order)
    \/ \E cake_id \in ClientIds : Cake_delete(cake_id)
    \/ \E cake_id \in ClientIds, data \in UpdateInputs : Cake_put(cake_id, data)

SpecList == Init /\ [][NextList]_vars

\* the bodies of the Updates that run concurrently
ConcurrentInputs == Bodies({{"name"}, {"extraField"}, {"name", "_id"}})

\* requests served concurrently: an Update is two store operations, every
\* other request is one
NextConc ==
    \/ \E data \in AddInputs : Cakes_post(data, "ok")
    \/ \E cake_id \in ClientIds : Cake_delete(cake_id)
    \/ \E cake_id \in ClientIds, data \in ConcurrentInputs : Cake_put_find_one(cake_id, data)
    \/ \E t \in DOMAIN inflight : Cake_put_replace(t)

SpecConc == Init /\ [][NextConc]_vars

TypeOK == nops \in 0..MaxOps

(* ---- properties -------------------------------------------------------- *)

RequiredSet == {"name", "comment", "imageUrl", "yumFactor"}

Whitelist == RequiredSet \cup {"_id"}

NotFound == [message |-> <<"Cake not found">>]

ById(coll, id) == CHOOSE d \in coll : d["_id"] = id

\* C1: a record that was added and has not been updated or deleted since is
\* returned by Get on the identifier Add returned, with status 200, with the
\* name, comment, imageUrl and yumFactor that were submitted and with that
\* identifier.
C1_RoundTrip ==
    (last.op = "get" /\ last.cake_id \in DOMAIN pristine) =>
        /\ last.status = 200
        /\ \A f \in RequiredSet :
              /\ f \in DOMAIN last.payload
              /\ last.payload[f] = GetItem(pristine[last.cake_id], f)
        /\ "_id" \in DOMAIN last.payload
        /\ last.payload["_id"] = last.cake_id

C1_Witness ==
    /\ last.op = "get"
    /\ last.cake_id \in DOMAIN pristine
    /\ last.status = 200
    /\ nops > 2

\* C2: an Add whose body lacks one of name, comment, imageUrl, yumFactor,
\* with or without fields outside the whitelist, is answered 400 "Missing
\* required fields in the data" and leaves the store as it was.
C2_RequiredFields ==
    [][(last'.op = "post" /\ RequiredSet \ Keys(last'.data) # {}) =>
          /\ last'.status = 400
          /\ last'.payload = [message |-> <<"Missing required fields in the data">>]
          /\ store' = store]_vars

C2_Witness ==
    /\ last.op = "post"
    /\ RequiredSet \ Keys(last.data) # {}
    /\ Keys(last.data) \ Whitelist # {}
    /\ last.status = 400
    /\ store # {}

\* C3: an Add whose body has the four required fields and at least one field
\* outside the whitelist is answered 400 with a message "Unexpected fields: "
\* followed by exactly the non-whitelisted fields of the body, and leaves the
\* store as it was.
C3_Whitelist ==
    [][(/\ last'.op = "post"
        /\ RequiredSet \subseteq Keys(last'.data)
        /\ Keys(last'.data) \ Whitelist # {}) =>
          /\ last'.status = 400
          /\ DOMAIN last'.payload = {"message"}
          /\ Head(last'.payload.message) = "Unexpected fields: "
          /\ Range(Tail(last'.payload.message)) \ {", "} = Keys(last'.data) \ Whitelist
          /\ store' = store]_vars

C3_Witness ==
    /\ last.op = "post"
    /\ RequiredSet \subseteq Keys(last.data)
    /\ Cardinality(Keys(last.data) \ Whitelist) = 2
    /\ "_id" \in Keys(last.data)
    /\ last.status = 400
    /\ store # {}

\* C4: Get, Delete and Update on an identifier that no stored record has are
\* each answered 404 "Cake not found" and leave the store as it was.
C4_NotFound ==
    [][(last'.op \in {"get", "delete", "put"} /\ last'.cake_id \notin Ids(store)) =>
          /\ last'.status = 404
          /\ last'.payload = NotFound
          /\ store' = store]_vars

C4_Witness ==
    /\ last.op = "put"
    /\ last.cake_id \notin Ids(store)
    /\ last.data # <<>>
    /\ last.status = 404
    /\ store # {}

\* C5: after a successful Update the stored record has, for each field of the
\* body, the body's value, and for each other field of the old record the old
\* value; every other stored record is as it was.
C5_PartialUpdate ==
    [][(last'.op = "put" /\ last'.status = 200) =>
          /\ last'.cake_id \in Ids(store)
          /\ last'.cake_id \in Ids(store')
          /\ LET old == ById(store, last'.cake_id)
                 new == ById(store', last'.cake_id)
             IN  /\ \A k \in Keys(last'.data) :
                       k \in DOMAIN new /\ new[k] = GetItem(last'.data, k)
                 /\ \A k \in DOMAIN old \ Keys(last'.data) :
                       k \in DOMAIN new /\ new[k] = old[k]
          /\ {d \in store' : d["_id"] # last'.cake_id}
                = {d \in store : d["_id"] # last'.cake_id}]_vars

C5_Witness ==
    /\ last.op = "put"
    /\ last.status = 200
    /\ Keys(last.data) = {"name"}
    /\ \E d \in store : d["_id"] = last.cake_id /\ d["name"] # d["comment"]
    /\ Cardinality(store) > 1

C7_FreshIdentifier ==
    [][/\ (last'.op = "post" /\ last'.status = 200) =>
             /\ "_id" \in DOMAIN last'.payload
             /\ issued' = issued + 1
             /\ last'.payload["_id"] = uuid4(issued)
             /\ last'.payload["_id"] \notin Ids(store)
             /\ store' = store \cup
                   {[k \in Keys(last'.data) \cup {"_id"} |->
                        IF k = "_id" THEN last'.payload["_id"]
                        ELSE GetItem(last'.data, k)]}
       /\ \A d1, d2 \in store' : d1["_id"] = d2["_id"] => d1 = d2]_vars

C7_Witness ==
    /\ last.op = "post"
    /\ last.status = 200
    /\ Has(last.data, "_id")
    /\ GetItem(last.data, "_id") # last.payload["_id"]
    /\ GetItem(last.data, "_id") \in Ids(store)
    /\ Cardinality(store) > 1

\* C8: an Update never changes the identifier a record is stored under, also
\* when its body carries another identifier: the stored identifiers are the
\* same before and after.
C8_IdentifierImmutable ==
    [][last'.op = "put" => Ids(store') = Ids(store)]_vars

C8_Witness ==
    /\ last.op = "put"
    /\ Has(last.data, "_id")
    /\ GetItem(last.data, "_id") # last.cake_id
    /\ last.cake_id \in Ids(store)

\* C9: every stored record has no fields other than name, comment, imageUrl,
\* yumFactor and the identifier.
C9_RecordShape == \A d \in store : DOMAIN d \subseteq Whitelist

\* C10: an Add whose body passes validation and whose insert fails is answered
\* 500 "Server error while adding the cake" with the failure description and
\* without an identifier; a payload with an identifier is returned only when
\* the insert succeeded.
C10_PersistenceFailure ==
    (/\ last.op = "post"
     /\ RequiredSet \subseteq Keys(last.data)
     /\ Keys(last.data) \subseteq Whitelist) =>
        /\ last.outcome # "ok" =>
              /\ last.status = 500
              /\ DOMAIN last.payload = {"message", "error"}
              /\ last.payload.message = <<"Server error while adding the cake">>
        /\ "_id" \in DOMAIN last.payload =>
              /\ last.outcome = "ok"
              /\ last.status = 200
              /\ last.payload["_id"] \in Ids(store)

C10_Witness ==
    /\ last.op = "post"
    /\ last.status = 500
    /\ last.outcome = "failed"
    /\ store # {}

\* C11: List answers with exactly one entry per stored record (none for an
\* empty store); each entry has the record's identifier and the record's name,
\* comment, imageUrl and yumFactor and no other field; the store is as it was.
C11_ListProjected ==
    [][last'.op = "list" =>
          /\ last'.status = 200
          /\ Len(last'.payload.array) = Cardinality(store)
          /\ \A d \in store :
                \E i \in 1..Len(last'.payload.array) :
                   /\ DOMAIN last'.payload.array[i] = DOMAIN d \cap Whitelist
                   /\ \A k \in DOMAIN d \cap Whitelist : last'.payload.array[i][k] = d[k]
          /\ store' = store]_vars

C11_Witness ==
    /\ last.op = "list"
    /\ Len(last.payload.array) > 0
    /\ \E d \in store : "extraField" \in DOMAIN d

Done == {t \in DOMAIN inflight : inflight[t].pc = "done"}

\* each of the two read before the other replaced
Overlap(a, b) ==
    /\ a \notin inflight[b].replaced_before
    /\ b \notin inflight[a].replaced_before

LastReplace(b) ==
    \A u \in Done :
       inflight[u].cake_id = inflight[b].cake_id => inflight[u].turn <= inflight[b].turn

MergeOf(t) ==
    [k \in DOMAIN inflight[t].existing_cake \cup Keys(inflight[t].data) |->
        IF k \in Keys(inflight[t].data) THEN GetItem(inflight[t].data, k)
        ELSE inflight[t].existing_cake[k]]

KeepsId(t) ==
    Has(inflight[t].data, "_id") => GetItem(inflight[t].data, "_id") = inflight[t].cake_id

LastWriterWins(a, b) ==
    /\ inflight[a].status = 200
    /\ inflight[b].status = 200
    /\ (inflight[b].cake_id \in Ids(store) /\ LastReplace(b)) =>
          ById(store, inflight[b].cake_id) = MergeOf(b)

C13_UpdateNeverCreates ==
    [][/\ Ids(store') \ Ids(store) # {} => last'.op = "post"
       /\ \A t \in DOMAIN inflight :
             (/\ inflight[t].pc = "read"
              /\ inflight'[t].pc = "done"
              /\ inflight[t].cake_id \notin Ids(store)) =>
                /\ store' = store
                /\ last'.op = "put"
                /\ last'.status = 200
                /\ last'.payload = [message |-> <<"Cake updated successfully">>]]_vars

C13_Witness ==
    /\ last.op = "put"
    /\ last.status = 200
    /\ last.cake_id \in deleted
    /\ last.cake_id \notin Ids(store)
    /\ \E t \in Done : inflight[t].cake_id = last.cake_id /\ inflight[t].data = last.data

====
